---- MODULE Spec2Model ----
(***************************************************************************)
(* ByteDict: a content-addressable dictionary of characters, words and     *)
(* phrases (GlobalDictionary) and the decomposition engine (Tokenizer)     *)
(* of src/bytedict/bytedict.py.                                            *)
(*                                                                         *)
(* A Python str is a sequence of code points, a bytes object a sequence    *)
(* of numbers 0..255.  A value handed to an operation is a record          *)
(* [t |-> "str" | "bytes" | "other", v |-> <sequence>].  The result of a   *)
(* conversion is [status |-> "ok" | <exception name>, val |-> <sequence>]. *)
(***************************************************************************)
EXTENDS Integers, Sequences, FiniteSets, TLC

VARIABLES char_store, word_store, phrase_store, embedding_store,
          pc, pending, hist

stores == <<char_store, word_store, phrase_store, embedding_store>>
vars == <<char_store, word_store, phrase_store, embedding_store, pc, pending, hist>>

(***************************************************************************)
(* Bounds of the model.                                                    *)
(***************************************************************************)
MaxLen == 2
MaxCalls == 2

(***************************************************************************)
(* Values.                                                                 *)
(***************************************************************************)
Str(s) == [t |-> "str", v |-> s]
Bytes(b) == [t |-> "bytes", v |-> b]
Other == [t |-> "other", v |-> <<>>]

Ok(x) == [status |-> "ok", val |-> x]
Raise(e) == [status |-> e, val |-> <<>>]

RECURSIVE Concat(_)
Concat(ss) == IF ss = <<>> THEN <<>> ELSE Head(ss) \o Concat(Tail(ss))

\* xs[-n:] of Python: the last n elements, and the whole list when n = 0 or
\* n >= len(xs).
LastN(xs, n) ==
  IF n = 0 \/ n >= Len(xs) THEN xs ELSE SubSeq(xs, Len(xs) - n + 1, Len(xs))

(***************************************************************************)
(* UTF-8, for code points below 2048 (one- and two-byte forms).            *)
(***************************************************************************)
RECURSIVE utf8_encode(_)
utf8_encode(s) ==
  IF s = <<>> THEN <<>>
  ELSE LET c == Head(s) IN
       (IF c < 128 THEN <<c>> ELSE <<192 + (c \div 64), 128 + (c % 64)>>)
         \o utf8_encode(Tail(s))

RECURSIVE utf8_decode(_)
utf8_decode(b) ==
  IF b = <<>> THEN Ok(<<>>)
  ELSE LET x == Head(b) IN
       IF x < 128
       THEN LET r == utf8_decode(Tail(b)) IN
            IF r.status = "ok" THEN Ok(<<x>> \o r.val) ELSE r
       ELSE IF x \in 194..223 /\ Len(b) >= 2 /\ b[2] \in 128..191
       THEN LET r == utf8_decode(Tail(Tail(b))) IN
            IF r.status = "ok"
            THEN Ok(<<(x - 192) * 64 + (b[2] - 128)>> \o r.val) ELSE r
       ELSE Raise("UnicodeDecodeError")

ensure_str(value) ==
  IF value.t = "str" THEN Ok(value.v)
  ELSE IF value.t = "bytes" THEN utf8_decode(value.v)
  ELSE Raise("ValueError")

ensure_bytes(value) ==
  IF value.t = "bytes" THEN Ok(value.v)
  ELSE IF value.t = "str" THEN Ok(utf8_encode(value.v))
  ELSE Raise("ValueError")

(***************************************************************************)
(* The digest function.  SHA-256 is taken collision-free: the digest of b  *)
(* is b between two marks that are no bytes, so distinct inputs have       *)
(* distinct digests and a concatenation of digests splits in one way only, *)
(* as a concatenation of 32-byte blocks does.                              *)
(***************************************************************************)
sha256(b) == <<256>> \o b \o <<257>>

get_hash(text) ==
  LET b == ensure_bytes(text) IN
  IF b.status = "ok" THEN Ok(sha256(b.val)) ELSE b

(***************************************************************************)
(* Character classes of Python's re and str, for code points below 256.    *)
(***************************************************************************)
IsAlnumChar(c) ==
  c \in (48..57) \cup (65..90) \cup (97..122) \cup ((192..255) \ {215, 247})
IsWordChar(c) == IsAlnumChar(c) \/ c = 95
IsSpaceChar(c) == c \in {9, 10, 11, 12, 13, 32}

\* str.isalnum()
isalnum(s) == s # <<>> /\ \A i \in 1..Len(s) : IsAlnumChar(s[i])

RECURSIVE WordRunEnd(_, _)
WordRunEnd(s, i) ==
  IF i <= Len(s) /\ IsWordChar(s[i]) THEN WordRunEnd(s, i + 1) ELSE i

\* re.findall(r"\w+|[^\w\s]", s), scanning from index i
RECURSIVE findall_from(_, _)
findall_from(s, i) ==
  IF i > Len(s) THEN <<>>
  ELSE IF IsWordChar(s[i])
  THEN LET j == WordRunEnd(s, i) IN
       <<SubSeq(s, i, j - 1)>> \o findall_from(s, j)
  ELSE IF IsSpaceChar(s[i]) THEN findall_from(s, i + 1)
  ELSE << <<s[i]>> >> \o findall_from(s, i + 1)

findall_tokens(s) == findall_from(s, 1)

RECURSIVE SpaceRunEnd(_, _)
SpaceRunEnd(s, i) ==
  IF i <= Len(s) /\ s[i] = 32 THEN SpaceRunEnd(s, i + 1) ELSE i

\* re.split(r"(?<=[.!?]) +", s): i scans, start is where the current piece began
RECURSIVE split_from(_, _, _)
split_from(s, i, start) ==
  IF i > Len(s) THEN <<SubSeq(s, start, Len(s))>>
  ELSE IF s[i] = 32 /\ i > 1 /\ s[i - 1] \in {46, 33, 63}
  THEN LET j == SpaceRunEnd(s, i) IN
       <<SubSeq(s, start, i - 1)>> \o split_from(s, j, j)
  ELSE split_from(s, i + 1, start)

split_sentences(s) == split_from(s, 1, 1)

\* re.split(r"[,;]", s)
RECURSIVE split_clauses_from(_, _, _)
split_clauses_from(s, i, start) ==
  IF i > Len(s) THEN <<SubSeq(s, start, Len(s))>>
  ELSE IF s[i] \in {44, 59}
  THEN <<SubSeq(s, start, i - 1)>> \o split_clauses_from(s, i + 1, i + 1)
  ELSE split_clauses_from(s, i + 1, start)

split_clauses(s) == split_clauses_from(s, 1, 1)

(***************************************************************************)
(* GlobalDictionary.  Inside one call the dictionary is the record         *)
(*   [char_store, word_store, phrase_store : digest -> text,               *)
(*    log : the mapping writes made so far, in order,                      *)
(*    out : token_hashes of tokenize_and_embed].                           *)
(* An operation maps such a record and its argument to                     *)
(*   [s |-> the record afterwards, status |-> "ok" or the exception,       *)
(*    ret |-> the digest returned].                                        *)
(***************************************************************************)
\* Python runs its statements in order: the dictionary a statement works on
\* has been computed when the statement starts.  Strict(s) is TRUE, and
\* evaluating it computes s.
Strict(s) == s.log = s.log

Done(s, ret) == [s |-> s, status |-> "ok", ret |-> ret]
Fail(s, e) == [s |-> s, status |-> e, ret |-> <<>>]

\* A list comprehension over calls: the dictionary and the digests so far.
NoHashes(s) == [s |-> s, hashes |-> <<>>]
Collect(acc, r) == [s |-> r.s, hashes |-> Append(acc.hashes, r.ret)]

\* insert_if_absent without the membership test: a later writer wins
insert_overwrite(s, store, k, x) ==
  [s EXCEPT ![store] = (k :> x) @@ s[store],
            !.log = Append(s.log, [store |-> store, key |-> k, val |-> x])]

\* insert_if_absent that resolves a taken key by probing the key's digest
insert_rehash(s, store, k, x) ==
  IF k \notin DOMAIN s[store] THEN insert_overwrite(s, store, k, x)
  ELSE IF sha256(k) \notin DOMAIN s[store]
  THEN insert_overwrite(s, store, sha256(k), x)
  ELSE s

\* if k not in self.<store>: self.<store>[k] = x
insert_if_absent(s, store, k, x) ==
  IF k \notin DOMAIN s[store]
  THEN [s EXCEPT ![store] = (k :> x) @@ s[store],
                 !.log = Append(s.log, [store |-> store, key |-> k, val |-> x])]
  ELSE s

\* if k not in self.<store>: self.<store>[k] = x; return k
insert_and_return(s, store, k, x) == Done(insert_if_absent(s, store, k, x), k)

\* add_char that writes the mapping before it has decoded its argument
add_char_early_write(s, char, hash_value, str) ==
  IF hash_value.status # "ok" THEN Fail(s, hash_value.status)
  ELSE IF str.status # "ok"
  THEN Fail(insert_if_absent(s, "char_store", hash_value.val, char.v),
            str.status)
  ELSE insert_and_return(s, "char_store", hash_value.val, str.val)

\* lines 38-42, hash_value being get_hash(char) and str ensure_str(char),
\* either of which may have raised
add_char_checked(s, char, hash_value, str) ==
  IF hash_value.status # "ok" THEN Fail(s, hash_value.status)
  ELSE IF str.status # "ok" THEN Fail(s, str.status)
  ELSE insert_and_return(s, "char_store", hash_value.val, str.val)

add_char(s, char) == add_char_checked(s, char, get_hash(char), ensure_str(char))

\* add_chars that hashes the characters without registering them
RECURSIVE add_chars_hash_only(_, _)
add_chars_hash_only(acc, word) ==
  IF word = <<>> THEN acc
  ELSE add_chars_hash_only(
         [s |-> acc.s,
          hashes |-> Append(acc.hashes, get_hash(Str(<<Head(word)>>)).val)],
         Tail(word))

\* [self.add_char(c) for c in word]
RECURSIVE add_chars(_, _)
add_chars(acc, word) ==
  IF Strict(acc.s) /\ word = <<>> THEN acc
  ELSE add_chars(Collect(acc, add_char(acc.s, Str(<<Head(word)>>))), Tail(word))

\* insert_combined that hashes the raw text of the unit with the digests
insert_combined_with_text(r, store, unit) ==
  insert_and_return(
    r.s, store,
    get_hash(Bytes(Concat(r.hashes) \o utf8_encode(unit))).val, unit)

\* lines 48-51 and 61-64: the unit is stored under the hash of the joined
\* digests of its children
insert_combined(r, store, unit) ==
  insert_and_return(r.s, store, get_hash(Bytes(Concat(r.hashes))).val, unit)

\* the key add_word computes for word
WordKey(word) ==
  sha256(Concat([i \in 1..Len(word) |-> sha256(utf8_encode(<<word[i]>>))]))

\* add_word that registers the word before its characters
add_word_parent_first(s, str) ==
  IF str.status # "ok" THEN Fail(s, str.status)
  ELSE Done(add_chars(NoHashes(insert_if_absent(s, "word_store",
                                                WordKey(str.val), str.val)),
                      str.val).s,
            WordKey(str.val))

\* lines 47-51, str being ensure_str(word)
add_word_checked(s, str) ==
  IF str.status # "ok" THEN Fail(s, str.status)
  ELSE insert_combined(add_chars(NoHashes(s), str.val), "word_store", str.val)

add_word(s, word) == add_word_checked(s, ensure_str(word))

\* self.add_word(token) if token.isalnum() else self.add_char(token)
add_token(s, token) ==
  IF isalnum(token) THEN add_word(s, Str(token)) ELSE add_char(s, Str(token))

\* [... for token in tokens]
RECURSIVE add_tokens(_, _)
add_tokens(acc, tokens) ==
  IF Strict(acc.s) /\ tokens = <<>> THEN acc
  ELSE add_tokens(Collect(acc, add_token(acc.s, Head(tokens))), Tail(tokens))

\* add_phrase that keys the phrase by the digest of its raw text
add_phrase_raw_key(s, str) ==
  IF str.status # "ok" THEN Fail(s, str.status)
  ELSE insert_and_return(add_tokens(NoHashes(s), findall_tokens(str.val)).s,
                         "phrase_store", get_hash(Str(str.val)).val, str.val)

\* lines 56-64, str being ensure_str(phrase)
add_phrase_checked(s, str) ==
  IF str.status # "ok" THEN Fail(s, str.status)
  ELSE insert_combined(add_tokens(NoHashes(s), findall_tokens(str.val)),
                       "phrase_store", str.val)

add_phrase(s, phrase) == add_phrase_checked(s, ensure_str(phrase))

(***************************************************************************)
(* Tokenizer.tokenize_and_embed, loop by loop.                             *)
(***************************************************************************)
Emit(s, h) == [s EXCEPT !.out = Append(s.out, h)]

\* lines 134-136, char_hash being get_hash(char)
tok_char_hashed(acc, char, char_hash) ==
  [s |-> IF char_hash \notin DOMAIN acc.s.char_store
         THEN add_char(acc.s, char).s ELSE acc.s,
   hashes |-> Append(acc.hashes, char_hash)]

\* lines 132-136: for char in word
RECURSIVE tok_chars(_, _)
tok_chars(acc, word) ==
  IF Strict(acc.s) /\ word = <<>> THEN acc
  ELSE tok_chars(tok_char_hashed(acc, Str(<<Head(word)>>),
                                 get_hash(Str(<<Head(word)>>)).val),
                 Tail(word))

\* tok_word_emit that appends the hash of the word's raw text
tok_word_emit_raw(r, word) ==
  Emit(add_word(r.s, Str(word)).s, get_hash(Str(word)).val)

\* lines 138-142, r being the dictionary and char_hashes after the characters
tok_word_emit(r, word) ==
  Emit(add_word(r.s, Str(word)).s, get_hash(Bytes(Concat(r.hashes))).val)

\* lines 130-142: one remaining word
tok_word(s, word) == tok_word_emit(tok_chars(NoHashes(s), word), word)

\* line 129: for word in word_hashes
RECURSIVE tok_remaining_words(_, _)
tok_remaining_words(s, word_hashes) ==
  IF Strict(s) /\ word_hashes = <<>> THEN s
  ELSE tok_remaining_words(tok_word(s, Head(word_hashes)), Tail(word_hashes))

\* lines 123-126 and 111-114: a unit whose hash is a key of the mapping is
\* emitted, another is kept for decomposition
emit_or_keep(acc, store, unit, unit_hash) ==
  IF unit_hash \in DOMAIN acc.s[store]
  THEN [s |-> Emit(acc.s, unit_hash), rest |-> acc.rest]
  ELSE [s |-> acc.s, rest |-> Append(acc.rest, unit)]

\* lines 121-126 and 109-114: for word in words / for phrase in phrases
RECURSIVE tok_split(_, _, _)
tok_split(acc, store, units) ==
  IF Strict(acc.s) /\ units = <<>> THEN acc
  ELSE tok_split(emit_or_keep(acc, store, Head(units),
                              get_hash(Str(Head(units))).val),
                 store, Tail(units))

\* lines 145-149 and 152-156: the digest appended for a phrase or a sentence
\* is the hash of the last len(children) entries of token_hashes
tok_close(s, unit, children) ==
  Emit(add_phrase(s, Str(unit)).s,
       get_hash(Bytes(Concat(LastN(s.out, Len(children))))).val)

\* lines 120-142, words being the tokens of the phrase
tok_words(r) == tok_remaining_words(r.s, r.rest)

tok_phrase_words(s, phrase, words) ==
  tok_close(tok_words(tok_split([s |-> s, rest |-> <<>>], "word_store", words)),
            phrase, words)

\* lines 118-149: one remaining phrase
tok_phrase(s, phrase) == tok_phrase_words(s, phrase, findall_tokens(phrase))

\* line 117: for phrase in phrase_hashes
RECURSIVE tok_remaining_phrases(_, _)
tok_remaining_phrases(s, phrase_hashes) ==
  IF Strict(s) /\ phrase_hashes = <<>> THEN s
  ELSE tok_remaining_phrases(tok_phrase(s, Head(phrase_hashes)),
                             Tail(phrase_hashes))

\* lines 108-149, phrases being the clauses of the sentence
tok_phrases(r) == tok_remaining_phrases(r.s, r.rest)

tok_sentence_phrases(s, sentence, phrases) ==
  tok_close(tok_phrases(tok_split([s |-> s, rest |-> <<>>], "phrase_store",
                                  phrases)),
            sentence, phrases)

\* tok_sentence_hashed that decomposes a sentence the phrase mapping knows
tok_sentence_decompose_known(s, sentence, sentence_hash) ==
  IF sentence_hash \in DOMAIN s.phrase_store
  THEN Emit(tok_sentence_phrases(s, sentence, split_clauses(sentence)),
            sentence_hash)
  ELSE tok_sentence_phrases(s, sentence, split_clauses(sentence))

\* lines 103-156, sentence_hash being get_hash(sentence)
tok_sentence_hashed(s, sentence, sentence_hash) ==
  IF sentence_hash \in DOMAIN s.phrase_store THEN Emit(s, sentence_hash)
  ELSE tok_sentence_phrases(s, sentence, split_clauses(sentence))

\* lines 102-156: one sentence
tok_sentence(s, sentence) ==
  tok_sentence_hashed(s, sentence, get_hash(Str(sentence)).val)

\* line 101: for sentence in sentence_tokens
RECURSIVE tok_sentences(_, _)
tok_sentences(s, sentence_tokens) ==
  IF Strict(s) /\ sentence_tokens = <<>> THEN s
  ELSE tok_sentences(tok_sentence(s, Head(sentence_tokens)),
                     Tail(sentence_tokens))

\* lines 98-158, str being ensure_str(text); the list returned is s.out
tokenize_checked(s, str) ==
  IF str.status # "ok" THEN Fail(s, str.status)
  ELSE Done(tok_sentences(s, split_sentences(str.val)), <<>>)

tokenize_and_embed(s, text) == tokenize_checked(s, ensure_str(text))

(***************************************************************************)
(* Lookups: dict.get with a default.                                       *)
(***************************************************************************)
\* the str "Not found"
NotFound == <<78, 111, 116, 32, 102, 111, 117, 110, 100>>

get_char(hash_value) ==
  IF hash_value \in DOMAIN char_store THEN char_store[hash_value] ELSE NotFound

get_word(hash_value) ==
  IF hash_value \in DOMAIN word_store THEN word_store[hash_value] ELSE NotFound

get_phrase(hash_value) ==
  IF hash_value \in DOMAIN phrase_store THEN phrase_store[hash_value]
  ELSE NotFound

get_embedding(hash_value) ==
  IF hash_value \in DOMAIN embedding_store THEN embedding_store[hash_value]
  ELSE <<>>

(***************************************************************************)
(* Inputs.                                                                 *)
(***************************************************************************)
\* 'a', ' ', ',', '.'
Alphabet == {97, 32, 44, 46}

\* "hello, world!"
HelloWorld == <<104, 101, 108, 108, 111, 44, 32, 119, 111, 114, 108, 100, 33>>

\* "é", "_a", "cat", "Hi. Bye!", "hello, world!" and "Not found"
ExampleTexts ==
  { <<233>>, <<95, 97>>, <<99, 97, 116>>,
    <<72, 105, 46, 32, 66, 121, 101, 33>>, HelloWorld, NotFound }

Texts == UNION {[1..n -> Alphabet] : n \in 0..MaxLen} \cup ExampleTexts

\* byte strings that are no UTF-8: a lead byte alone, a continuation byte
\* alone, a byte that occurs in no UTF-8 text
InvalidUtf8 == { <<195>>, <<169>>, <<97, 255>> }

\* b"a", b"\xc3\xa9" ("é"), and the invalid ones
ByteStrings == { <<97>>, <<195, 169>> } \cup InvalidUtf8

Values == {Str(t) : t \in Texts} \cup {Bytes(b) : b \in ByteStrings} \cup {Other}

\* the digest of "a", the digest of the word "a", and a digest of no text
EmbeddingKeys == { sha256(<<97>>), sha256(sha256(<<97>>)), sha256(<<0>>) }
Vectors == { <<>>, <<1>>, <<2>> }

(***************************************************************************)
(* The state machine.  A call of the dictionary or the tokenizer starts    *)
(* (pc = "run"), makes its mapping writes one at a time in the order of    *)
(* the code, and returns (pc = "idle").  hist records the calls made, the  *)
(* last entry being the call that is running or has just returned.         *)
(***************************************************************************)
EmptyMap == [d \in {} |-> <<>>]

Snapshot ==
  [char_store |-> char_store, word_store |-> word_store,
   phrase_store |-> phrase_store, embedding_store |-> embedding_store]

Start ==
  [char_store |-> char_store, word_store |-> word_store,
   phrase_store |-> phrase_store, log |-> <<>>, out |-> <<>>]

Init ==
  /\ char_store = EmptyMap
  /\ word_store = EmptyMap
  /\ phrase_store = EmptyMap
  /\ embedding_store = EmptyMap
  /\ pc = "idle"
  /\ pending = <<>>
  /\ hist = <<>>

Begin(op, value, r) ==
  /\ pc = "idle"
  /\ Len(hist) < MaxCalls
  /\ pc' = "run"
  /\ pending' = r.s.log
  /\ hist' = Append(hist, [op |-> op, arg |-> value, vec |-> <<>>,
                           status |-> r.status, ret |-> r.ret,
                           out |-> r.s.out, pre |-> Snapshot])
  /\ UNCHANGED stores

AddChar(value) == Begin("add_char", value, add_char(Start, value))

AddWord(value) == Begin("add_word", value, add_word(Start, value))

AddPhrase(value) == Begin("add_phrase", value, add_phrase(Start, value))

TokenizeAndEmbed(value) ==
  Begin("tokenize_and_embed", value, tokenize_and_embed(Start, value))

\* Write that makes the pending write and keeps it pending
Write_again ==
  /\ pc = "run"
  /\ pending # <<>>
  /\ LET e == Head(pending) IN
     /\ char_store' = IF e.store = "char_store"
                      THEN (e.key :> e.val) @@ char_store ELSE char_store
     /\ word_store' = IF e.store = "word_store"
                      THEN (e.key :> e.val) @@ word_store ELSE word_store
     /\ phrase_store' = IF e.store = "phrase_store"
                        THEN (e.key :> e.val) @@ phrase_store ELSE phrase_store
  /\ UNCHANGED <<embedding_store, pc, pending, hist>>

\* self.<store>[key] = val
Write ==
  /\ pc = "run"
  /\ pending # <<>>
  /\ LET e == Head(pending) IN
     /\ char_store' = IF e.store = "char_store"
                      THEN (e.key :> e.val) @@ char_store ELSE char_store
     /\ word_store' = IF e.store = "word_store"
                      THEN (e.key :> e.val) @@ word_store ELSE word_store
     /\ phrase_store' = IF e.store = "phrase_store"
                        THEN (e.key :> e.val) @@ phrase_store ELSE phrase_store
  /\ pending' = Tail(pending)
  /\ UNCHANGED <<embedding_store, pc, hist>>

Return ==
  /\ pc = "run"
  /\ pending = <<>>
  /\ pc' = "idle"
  /\ UNCHANGED <<stores, pending, hist>>

\* add_embedding with the insert-if-absent rule of the text mappings
add_embedding_if_absent(hash_value, embedding) ==
  IF hash_value \in DOMAIN embedding_store THEN embedding_store
  ELSE (hash_value :> embedding) @@ embedding_store

\* self.embedding_store[hash_value] = embedding
add_embedding(hash_value, embedding) ==
  [d \in DOMAIN embedding_store \cup {hash_value} |->
     IF d = hash_value THEN embedding ELSE embedding_store[d]]

AddEmbedding(hash_value, embedding) ==
  /\ pc = "idle"
  /\ Len(hist) < MaxCalls
  /\ embedding_store' = add_embedding(hash_value, embedding)
  /\ hist' = Append(hist, [op |-> "add_embedding", arg |-> Bytes(hash_value),
                           vec |-> embedding, status |-> "ok", ret |-> <<>>,
                           out |-> <<>>, pre |-> Snapshot])
  /\ UNCHANGED <<char_store, word_store, phrase_store, pc, pending>>

Next ==
  \/ \E value \in Values : AddChar(value)
  \/ \E value \in Values : AddWord(value)
  \/ \E value \in Values : AddPhrase(value)
  \/ \E value \in Values : TokenizeAndEmbed(value)
  \/ \E hash_value \in EmbeddingKeys, embedding \in Vectors :
       AddEmbedding(hash_value, embedding)
  \/ Write
  \/ Return

Spec == Init /\ [][Next]_vars

(***************************************************************************)
(* Properties.  Cur is the call that is running or has just returned.      *)
(***************************************************************************)
Cur == hist[Len(hist)]
Returned == pc = "idle" /\ hist # <<>>
TextOps == {"add_char", "add_word", "add_phrase", "tokenize_and_embed"}
InsertOps == {"add_char", "add_word", "add_phrase"}
ArgText(h) == ensure_str(h.arg).val
RawDigest(text) == sha256(utf8_encode(text))

\* C1: tokenizeAndEmbed on an initially empty store returns a non-empty
\* sequence each of whose digests is a key of the phrase, the word or the
\* character mapping as the store stands when the call returns.
C1_OutputResolvable ==
  (/\ Returned
   /\ Cur.op = "tokenize_and_embed"
   /\ Cur.status = "ok"
   /\ Cur.pre.char_store = EmptyMap
   /\ Cur.pre.word_store = EmptyMap
   /\ Cur.pre.phrase_store = EmptyMap)
  => /\ Cur.out # <<>>
     /\ \A i \in 1..Len(Cur.out) :
          Cur.out[i] \in DOMAIN phrase_store \cup DOMAIN word_store
                           \cup DOMAIN char_store

\* C2: after tokenizeAndEmbed(t) has completed, a later tokenizeAndEmbed(t)
\* on the same store finds every sentence of t in the phrase mapping and
\* emits exactly one digest per sentence.
C2_SecondRunMemoized ==
  (/\ Returned
   /\ Cur.op = "tokenize_and_embed"
   /\ Cur.status = "ok"
   /\ \E i \in 1..(Len(hist) - 1) :
        /\ hist[i].op = "tokenize_and_embed"
        /\ hist[i].status = "ok"
        /\ ArgText(hist[i]) = ArgText(Cur))
  => LET sentences == split_sentences(ArgText(Cur)) IN
     /\ \A i \in 1..Len(sentences) :
          RawDigest(sentences[i]) \in DOMAIN Cur.pre.phrase_store
     /\ Len(Cur.out) = Len(sentences)

\* C3: the store is append-only and first-writer-wins: no step removes a key
\* from any of the four mappings, and a digest of the character, word or
\* phrase mapping keeps the text it maps to.
KeepsEntries(m, n) == \A d \in DOMAIN m : d \in DOMAIN n /\ n[d] = m[d]

C3_AppendOnly ==
  [][/\ KeepsEntries(char_store, char_store')
     /\ KeepsEntries(word_store, word_store')
     /\ KeepsEntries(phrase_store, phrase_store')
     /\ DOMAIN embedding_store \subseteq DOMAIN embedding_store']_vars

\* A phrase was inserted whose digest was taken by a different text (the two
\* differ in whitespace only), and the earlier text is the one stored.
C3_Witness ==
  /\ Returned
  /\ Cur.op = "add_phrase"
  /\ Cur.status = "ok"
  /\ Cur.ret \in DOMAIN Cur.pre.phrase_store
  /\ Cur.pre.phrase_store[Cur.ret] # ArgText(Cur)
  /\ phrase_store[Cur.ret] = Cur.pre.phrase_store[Cur.ret]

\* C4: in each of the three text mappings the result of a lookup of an absent
\* digest differs from the result of the lookup of every present digest.
\* NoText is the digest of a byte string that is no text's encoding.
NoText == sha256(<<0>>)

C4_MissDistinguishable ==
  /\ NoText \notin DOMAIN char_store
       => \A d \in DOMAIN char_store : get_char(d) # get_char(NoText)
  /\ NoText \notin DOMAIN word_store
       => \A d \in DOMAIN word_store : get_word(d) # get_word(NoText)
  /\ NoText \notin DOMAIN phrase_store
       => \A d \in DOMAIN phrase_store : get_phrase(d) # get_phrase(NoText)

\* The composition law, stated on texts: the digest of a word is the hash of
\* its characters' digests, the digest of a phrase the hash of its tokens'
\* digests, an alphanumeric token counting as a word and any other as a
\* character unit.
CharDigest(c) == sha256(utf8_encode(<<c>>))
WordDigest(w) == sha256(Concat([i \in 1..Len(w) |-> CharDigest(w[i])]))
TokenDigest(tok) == IF isalnum(tok) THEN WordDigest(tok) ELSE RawDigest(tok)
PhraseDigest(p) ==
  LET tokens == findall_tokens(p) IN
  sha256(Concat([i \in 1..Len(tokens) |-> TokenDigest(tokens[i])]))

Composed ==
  /\ \A d \in DOMAIN word_store : d = WordDigest(word_store[d])
  /\ \A d \in DOMAIN phrase_store : d = PhraseDigest(phrase_store[d])
  /\ (Returned /\ Cur.op = "add_word" /\ Cur.status = "ok")
       => Cur.ret = WordDigest(ArgText(Cur))

\* C5 as claimed: every word and phrase entry obeys the composition law, and
\* no key is the hash of the composite's own raw text.
C5_ComposedNeverRaw ==
  /\ Composed
  /\ \A d \in DOMAIN word_store : d # RawDigest(word_store[d])
  /\ \A d \in DOMAIN phrase_store : d # RawDigest(phrase_store[d])

\* C5 as amended: every word and phrase entry obeys the composition law, and
\* no key of a non-empty word or phrase is the hash of its own raw text (the
\* empty word and the empty phrase are keyed by the hash of the empty byte
\* string, which is the hash of their raw text).
C5_ComposedRawOnlyIfEmpty ==
  /\ Composed
  /\ \A d \in DOMAIN word_store :
       word_store[d] # <<>> => d # RawDigest(word_store[d])
  /\ \A d \in DOMAIN phrase_store :
       phrase_store[d] # <<>> => d # RawDigest(phrase_store[d])

\* The tokenizer has stored a word of two or more characters and a phrase of
\* two or more tokens.
C5_Witness ==
  /\ Returned
  /\ Cur.op = "tokenize_and_embed"
  /\ \E d \in DOMAIN word_store : Len(word_store[d]) >= 2
  /\ \E d \in DOMAIN phrase_store : Len(findall_tokens(phrase_store[d])) >= 2

\* C6: from any reachable state, getCharacter(insertCharacter(c)) = c for
\* every single character c, and for every word w getWord(insertWord(w)) = w
\* and afterwards getCharacter(Hash(c)) = c for every character c of w.
C6_RoundTrip ==
  (Returned /\ Cur.status = "ok") =>
    /\ (Cur.op = "add_char" /\ Len(ArgText(Cur)) = 1)
         => get_char(Cur.ret) = ArgText(Cur)
    /\ Cur.op = "add_word"
         => /\ get_word(Cur.ret) = ArgText(Cur)
            /\ \A i \in 1..Len(ArgText(Cur)) :
                 get_char(CharDigest(ArgText(Cur)[i])) = <<ArgText(Cur)[i]>>

\* A word of two or more characters has been inserted into a store that
\* earlier operations had filled.
C6_Witness ==
  /\ Returned
  /\ Len(hist) >= 2
  /\ Cur.op = "add_word"
  /\ Cur.status = "ok"
  /\ Len(ArgText(Cur)) >= 2
  /\ Cur.pre.char_store # EmptyMap
  /\ get_word(Cur.ret) = ArgText(Cur)

\* C7: an insert operation called twice in a row on the same unit returns the
\* same digest both times and its second call leaves all four mappings
\* unchanged, at each of its steps; across two insertCharacter(c) calls the
\* character mapping grows by at most one entry.
SameCallTwice(i) ==
  /\ i >= 1
  /\ i + 1 = Len(hist)
  /\ hist[i].op \in InsertOps
  /\ hist[i + 1].op = hist[i].op
  /\ hist[i + 1].arg = hist[i].arg
  /\ hist[i].status = "ok"

C7_Idempotent ==
  \A i \in 1..Len(hist) :
    SameCallTwice(i) =>
      /\ Cur.status = "ok"
      /\ Cur.ret = hist[i].ret
      /\ Snapshot = Cur.pre
      /\ Cur.op = "add_char"
           => Cardinality(DOMAIN char_store)
                <= Cardinality(DOMAIN hist[i].pre.char_store) + 1

\* A phrase of two or more tokens has been inserted twice in a row, the first
\* call having written to the store.
C7_Witness ==
  /\ Returned
  /\ Len(hist) >= 2
  /\ SameCallTwice(Len(hist) - 1)
  /\ Cur.op = "add_phrase"
  /\ Len(findall_tokens(ArgText(Cur))) >= 2
  /\ Cur.pre # hist[Len(hist) - 1].pre
  /\ Snapshot = Cur.pre

\* C8: in every state, those inside a call included, each character of a
\* stored word is in the character mapping, each alphanumeric token of a
\* stored phrase is in the word mapping and each other token of it is in the
\* character mapping; and a returned insertPhrase has registered the tokens
\* of its argument.
HasChar(text) ==
  RawDigest(text) \in DOMAIN char_store /\ char_store[RawDigest(text)] = text
HasWord(text) ==
  WordDigest(text) \in DOMAIN word_store /\ word_store[WordDigest(text)] = text
TokensRegistered(p) ==
  LET tokens == findall_tokens(p) IN
  \A i \in 1..Len(tokens) :
    IF isalnum(tokens[i]) THEN HasWord(tokens[i]) ELSE HasChar(tokens[i])

C8_ChildClosure ==
  /\ \A d \in DOMAIN word_store :
       \A i \in 1..Len(word_store[d]) : HasChar(<<word_store[d][i]>>)
  /\ \A d \in DOMAIN phrase_store : TokensRegistered(phrase_store[d])
  /\ (Returned /\ Cur.op = "add_phrase" /\ Cur.status = "ok")
       => TokensRegistered(ArgText(Cur))

\* insertPhrase("hello, world!") is one write from returning: "hello",
\* "world", "," and "!" are registered and the phrase is not yet.
C8_Witness ==
  /\ pc = "run"
  /\ hist # <<>>
  /\ Cur.op = "add_phrase"
  /\ Cur.arg = Str(HelloWorld)
  /\ Len(pending) = 1
  /\ pending[1].store = "phrase_store"
  /\ HasWord(<<104, 101, 108, 108, 111>>)
  /\ HasWord(<<119, 111, 114, 108, 100>>)
  /\ HasChar(<<44>>)
  /\ HasChar(<<33>>)

\* C9: an insert or tokenizeAndEmbed call given a value that is neither text
\* nor bytes, or bytes that are no UTF-8, ends in an error and at each of its
\* steps the four mappings are as they were before the call.
BadValue(value) ==
  value.t = "other" \/ (value.t = "bytes" /\ value.v \in InvalidUtf8)

C9_FailureChangesNothing ==
  (hist # <<>> /\ Cur.op \in TextOps /\ BadValue(Cur.arg)) =>
    /\ Cur.status # "ok"
    /\ pending = <<>>
    /\ Snapshot = Cur.pre

\* A call on bytes that are no UTF-8 has failed on a store that holds entries,
\* and they are still there.
C9_Witness ==
  /\ Returned
  /\ Cur.op \in TextOps
  /\ Cur.arg.t = "bytes"
  /\ Cur.status = "UnicodeDecodeError"
  /\ Cur.pre.char_store # EmptyMap
  /\ char_store = Cur.pre.char_store

\* C10: setEmbedding(d, v) succeeds for any digest and leaves the three text
\* mappings unchanged, the insert operations and tokenizeAndEmbed leave the
\* embedding mapping unchanged at each of their steps, and getEmbedding(d) is
\* the last vector set for d, or the empty sequence when none was set.
RECURSIVE LastVectorSet(_, _)
LastVectorSet(d, n) ==
  IF n = 0 THEN <<>>
  ELSE IF hist[n].op = "add_embedding" /\ hist[n].arg.v = d THEN hist[n].vec
  ELSE LastVectorSet(d, n - 1)

C10_EmbeddingIndependent ==
  /\ \A d \in EmbeddingKeys \cup DOMAIN embedding_store :
       get_embedding(d) = LastVectorSet(d, Len(hist))
  /\ \A n \in 1..Len(hist) :
       LET post == IF n = Len(hist) THEN Snapshot ELSE hist[n + 1].pre IN
       IF hist[n].op = "add_embedding"
       THEN /\ hist[n].status = "ok"
            /\ post.char_store = hist[n].pre.char_store
            /\ post.word_store = hist[n].pre.word_store
            /\ post.phrase_store = hist[n].pre.phrase_store
       ELSE post.embedding_store = hist[n].pre.embedding_store

\* An embedding was set for a digest of no text mapping and set again, and
\* a text operation ran in between or afterwards on a non-empty embedding
\* mapping.
C10_Witness ==
  /\ Returned
  /\ Len(hist) >= 2
  /\ Cur.op = "add_embedding"
  /\ hist[Len(hist) - 1].op = "add_embedding"
  /\ Cur.arg = hist[Len(hist) - 1].arg
  /\ Cur.vec # hist[Len(hist) - 1].vec
  /\ Cur.arg.v \notin DOMAIN char_store \cup DOMAIN word_store
                        \cup DOMAIN phrase_store
  /\ get_embedding(Cur.arg.v) = Cur.vec

(***************************************************************************)
(* The walk of tokenize_and_embed, replayed for a recorded call h: the     *)
(* dictionary and the output list as each loop of the code finds them.     *)
(***************************************************************************)
CallStart(h) ==
  [char_store |-> h.pre.char_store, word_store |-> h.pre.word_store,
   phrase_store |-> h.pre.phrase_store, log |-> <<>>, out |-> <<>>]
Sentences(h) == split_sentences(ArgText(h))
Prefix(xs, n) == SubSeq(xs, 1, n)
TokenizeReturned ==
  Returned /\ Cur.op = "tokenize_and_embed" /\ Cur.status = "ok"

\* when the loop of line 101 reaches the k-th sentence, and when it leaves it
AtSentence(h, k) == tok_sentences(CallStart(h), Prefix(Sentences(h), k - 1))
AfterSentence(h, k) == tok_sentence(AtSentence(h, k), Sentences(h)[k])
Memoized(s, text) == RawDigest(text) \in DOMAIN s.phrase_store

\* after the loop of lines 109-114: r.rest are the clauses to decompose
ClauseSplit(s, sentence) ==
  tok_split([s |-> s, rest |-> <<>>], "phrase_store", split_clauses(sentence))
\* when the loop of line 117 reaches the j-th of them, and when it leaves it
AtClause(r, j) == tok_remaining_phrases(r.s, Prefix(r.rest, j - 1))
AfterClause(r, j) == tok_phrase(AtClause(r, j), r.rest[j])

\* the digests appended to the output between s and t
Appended(s, t) == SubSeq(t.out, Len(s.out) + 1, Len(t.out))
Last(xs) == xs[Len(xs)]
Front(xs) == SubSeq(xs, 1, Len(xs) - 1)

\* C12: for every clause that tokenizeAndEmbed decomposes, the last digest
\* appended for the clause is the hash of the concatenation, in order, of the
\* digests appended before it for that clause (those of its own tokens),
\* whatever the number of tokens, zero included.
C12_ClauseDigestOfOwnTokens ==
  TokenizeReturned =>
    \A k \in 1..Len(Sentences(Cur)) :
      LET s == AtSentence(Cur, k)
          r == ClauseSplit(s, Sentences(Cur)[k])
      IN ~Memoized(s, Sentences(Cur)[k]) =>
           \A j \in 1..Len(r.rest) :
             LET own == Appended(AtClause(r, j), AfterClause(r, j)) IN
             /\ own # <<>>
             /\ Last(own) = sha256(Concat(Front(own)))

\* The digest the call emits for the i-th clause of a sentence met in state s:
\* the hash of its raw text when the loop of lines 109-114 finds it in the
\* phrase mapping, else the digest appended when its decomposition ends
\* (r.rest holds the clauses not found, in order).
RestIndex(s, clauses, i) ==
  Cardinality({m \in 1..i : ~Memoized(s, clauses[m])})
ClauseDigest(s, r, clauses, i) ==
  IF Memoized(s, clauses[i]) THEN RawDigest(clauses[i])
  ELSE Last(AfterClause(r, RestIndex(s, clauses, i)).out)

\* C13: for every sentence that tokenizeAndEmbed decomposes, the sentence
\* digest appended to the output is the hash of the concatenation, in order,
\* of the digests of the sentence's clauses, one per clause.
C13_SentenceDigestOfClauses ==
  TokenizeReturned =>
    \A k \in 1..Len(Sentences(Cur)) :
      LET s == AtSentence(Cur, k)
          clauses == split_clauses(Sentences(Cur)[k])
          r == ClauseSplit(s, Sentences(Cur)[k])
      IN ~Memoized(s, Sentences(Cur)[k]) =>
           Last(AfterSentence(Cur, k).out) =
             sha256(Concat([i \in 1..Len(clauses) |->
                              ClauseDigest(s, r, clauses, i)]))

\* The places in the output list of the digests emitted for the i-th clause
\* of a sentence met in state s: one place, filled by the loop of lines
\* 109-114, for a clause found in the phrase mapping, else the places filled
\* by its decomposition.
ClauseFirst(s, r, clauses, i) ==
  IF Memoized(s, clauses[i])
  THEN Len(s.out) + Cardinality({m \in 1..i : Memoized(s, clauses[m])})
  ELSE Len(AtClause(r, RestIndex(s, clauses, i)).out) + 1
ClauseLast(s, r, clauses, i) ==
  IF Memoized(s, clauses[i]) THEN ClauseFirst(s, r, clauses, i)
  ELSE Len(AfterClause(r, RestIndex(s, clauses, i)).out)

\* Likewise the place of the digest emitted for the m-th token of a clause
\* met in state b, w being the outcome of the loop of lines 121-126.
KnownWord(b, token) == RawDigest(token) \in DOMAIN b.word_store
WordSplit(b, tokens) == tok_split([s |-> b, rest |-> <<>>], "word_store", tokens)
TokenPlace(b, w, tokens, m) ==
  IF KnownWord(b, tokens[m])
  THEN Len(b.out) + Cardinality({n \in 1..m : KnownWord(b, tokens[n])})
  ELSE Len(tok_remaining_words(
             w.s, Prefix(w.rest, Cardinality({n \in 1..m :
                                                ~KnownWord(b, tokens[n])}))).out)

TokensInOrder(b, tokens) ==
  \A m, n \in 1..Len(tokens) :
    m < n => TokenPlace(b, WordSplit(b, tokens), tokens, m)
               < TokenPlace(b, WordSplit(b, tokens), tokens, n)

\* C14: the output is in document order: of two clauses of a sentence every
\* digest emitted for the earlier one precedes every digest emitted for the
\* later one, and likewise for two tokens of a clause.
C14_DocumentOrder ==
  TokenizeReturned =>
    \A k \in 1..Len(Sentences(Cur)) :
      LET s == AtSentence(Cur, k)
          clauses == split_clauses(Sentences(Cur)[k])
          r == ClauseSplit(s, Sentences(Cur)[k])
      IN ~Memoized(s, Sentences(Cur)[k]) =>
           /\ \A i, j \in 1..Len(clauses) :
                i < j => ClauseLast(s, r, clauses, i)
                           < ClauseFirst(s, r, clauses, j)
           /\ \A j \in 1..Len(r.rest) :
                TokensInOrder(AtClause(r, j), findall_tokens(r.rest[j]))

\* C15: a sentence whose raw-text hash is a key of the phrase mapping when
\* tokenizeAndEmbed meets it gets exactly that one digest appended, is not
\* decomposed, and leaves the mappings as they were; a call all of whose
\* sentences are met so returns one digest per sentence and at none of its
\* steps changes any of the four mappings.
C15_MemoizedSkip ==
  (hist # <<>> /\ Cur.op = "tokenize_and_embed" /\ Cur.status = "ok") =>
    /\ \A k \in 1..Len(Sentences(Cur)) :
         LET s == AtSentence(Cur, k) IN
         Memoized(s, Sentences(Cur)[k]) =>
           AfterSentence(Cur, k) =
             [s EXCEPT !.out = Append(s.out, RawDigest(Sentences(Cur)[k]))]
    /\ (\A k \in 1..Len(Sentences(Cur)) :
          Memoized(AtSentence(Cur, k), Sentences(Cur)[k]))
         => /\ Len(Cur.out) = Len(Sentences(Cur))
            /\ pending = <<>>
            /\ Snapshot = Cur.pre

\* A call has returned that decomposed one sentence, writing to the store,
\* and then met a sentence that the phrase mapping knew.
C15_Witness ==
  /\ TokenizeReturned
  /\ \E k \in 1..Len(Sentences(Cur)) :
       /\ Memoized(AtSentence(Cur, k), Sentences(Cur)[k])
       /\ AtSentence(Cur, k).log # <<>>
       /\ Cur.out[Len(AtSentence(Cur, k).out) + 1]
            = RawDigest(Sentences(Cur)[k])
       /\ phrase_store[RawDigest(Sentences(Cur)[k])] = Sentences(Cur)[k]

\* when the loop of line 129 reaches the m-th token to decompose of a clause
\* (w being the outcome of the loop of lines 121-126), and when it leaves it
AtWord(w, m) == tok_remaining_words(w.s, Prefix(w.rest, m - 1))
AfterWord(w, m) == tok_word(AtWord(w, m), w.rest[m])

\* the token is registered as a word under digest d, its characters as
\* characters
RegisteredAs(d, token) ==
  /\ get_word(d) = token
  /\ d \in DOMAIN word_store
  /\ \A i \in 1..Len(token) : HasChar(<<token[i]>>)

WordsRegistered(b, tokens) ==
  LET w == WordSplit(b, tokens) IN
  \A m \in 1..Len(w.rest) :
    /\ Len(Appended(AtWord(w, m), AfterWord(w, m))) = 1
    /\ RegisteredAs(Last(AfterWord(w, m).out), w.rest[m])
    /\ Last(AfterWord(w, m).out) = add_word(AfterWord(w, m), Str(w.rest[m])).ret

\* C16: for every token that tokenizeAndEmbed decomposes into characters, the
\* one digest appended for it is the digest insertWord returns for the token;
\* after the call getWord of that digest is the token and every character of
\* the token is in the character mapping.
C16_WordDigestRegistered ==
  TokenizeReturned =>
    \A k \in 1..Len(Sentences(Cur)) :
      LET s == AtSentence(Cur, k)
          r == ClauseSplit(s, Sentences(Cur)[k])
      IN ~Memoized(s, Sentences(Cur)[k]) =>
           \A j \in 1..Len(r.rest) :
             WordsRegistered(AtClause(r, j), findall_tokens(r.rest[j]))

\* tokenizeAndEmbed("hello, world!") has returned: "hello" and "world" were
\* decomposed and the output holds the digests of the two words.
C16_Witness ==
  /\ TokenizeReturned
  /\ Cur.arg = Str(HelloWorld)
  /\ \E i, j \in 1..Len(Cur.out) :
       /\ i < j
       /\ get_word(Cur.out[i]) = <<104, 101, 108, 108, 111>>
       /\ get_word(Cur.out[j]) = <<119, 111, 114, 108, 100>>
  /\ HasChar(<<104>>)

\* the number of characters of a sequence of tokens
RECURSIVE TotalLen(_)
TotalLen(tokens) ==
  IF tokens = <<>> THEN 0 ELSE Len(Head(tokens)) + TotalLen(Tail(tokens))

\* the tokens of a sequence of clauses, in order
RECURSIVE TokensOf(_)
TokensOf(clauses) ==
  IF clauses = <<>> THEN <<>>
  ELSE findall_tokens(Head(clauses)) \o TokensOf(Tail(clauses))

\* no unit of the sentence is known in state s: not the sentence, none of its
\* clauses, none of its tokens, none of its characters
NothingKnown(s, sentence) ==
  LET clauses == split_clauses(sentence)
      tokens == TokensOf(clauses)
  IN /\ ~Memoized(s, sentence)
     /\ \A i \in 1..Len(clauses) : ~Memoized(s, clauses[i])
     /\ \A m \in 1..Len(tokens) :
          /\ ~KnownWord(s, tokens[m])
          /\ WordDigest(tokens[m]) \notin DOMAIN s.word_store
          /\ \A i \in 1..Len(tokens[m]) :
               CharDigest(tokens[m][i]) \notin DOMAIN s.char_store

\* C17: for a sentence none of whose units is known, the call appends one
\* digest per character, one per word, one per clause and one for the
\* sentence; for a memoized sentence it appends exactly one.
C17_OneDigestPerUnit ==
  TokenizeReturned =>
    \A k \in 1..Len(Sentences(Cur)) :
      LET s == AtSentence(Cur, k)
          sentence == Sentences(Cur)[k]
          n == Len(Appended(s, AfterSentence(Cur, k)))
      IN /\ Memoized(s, sentence) => n = 1
         /\ NothingKnown(s, sentence) =>
              n = TotalLen(TokensOf(split_clauses(sentence)))
                    + Len(TokensOf(split_clauses(sentence)))
                    + Len(split_clauses(sentence)) + 1

\* C18: every token of its argument that insertPhrase routes to
\* insertCharacter (the tokens that are not alphanumeric) is a single
\* character that is neither a word character nor whitespace, and every text
\* insertPhrase adds to the character mapping is a single code point.
C18_CharTokensSingle ==
  (hist # <<>> /\ Cur.op = "add_phrase" /\ Cur.status = "ok") =>
    /\ \A i \in 1..Len(findall_tokens(ArgText(Cur))) :
         LET token == findall_tokens(ArgText(Cur))[i] IN
         ~isalnum(token) =>
           /\ Len(token) = 1
           /\ ~IsWordChar(token[1])
           /\ ~IsSpaceChar(token[1])
    /\ \A d \in DOMAIN char_store \ DOMAIN Cur.pre.char_store :
         Len(char_store[d]) = 1

\* The digest insertPhrase returns is that of the token sequence of its
\* argument: it is the digest insertPhrase returns for a text q exactly when q
\* has the same tokens in the same order; and the text looked up under it
\* has the tokens of the argument.
DigestByTokens ==
  /\ \A q \in Texts :
       (add_phrase(Start, Str(q)).ret = Cur.ret)
         <=> (findall_tokens(q) = findall_tokens(ArgText(Cur)))
  /\ \A i \in 1..Len(hist) :
       (hist[i].op = "add_phrase" /\ hist[i].status = "ok") =>
         ((hist[i].ret = Cur.ret)
            <=> (findall_tokens(ArgText(hist[i])) = findall_tokens(ArgText(Cur))))
  /\ Cur.ret \in DOMAIN phrase_store
  /\ findall_tokens(get_phrase(Cur.ret)) = findall_tokens(ArgText(Cur))

PhraseReturned == Returned /\ Cur.op = "add_phrase" /\ Cur.status = "ok"

\* C20 as claimed: the digest of a phrase depends only on its token
\* sequence, and getPhrase(insertPhrase(p)) is p itself only if no phrase with
\* that token sequence was inserted before the call.
C20_TextIsOwnOnlyIfFirst ==
  PhraseReturned =>
    /\ DigestByTokens
    /\ get_phrase(Cur.ret) = ArgText(Cur)
         => Cur.ret \notin DOMAIN Cur.pre.phrase_store

\* C20 as amended: the digest of a phrase depends only on its token
\* sequence, and getPhrase(insertPhrase(p)) is the text of the first phrase
\* inserted with that token sequence: p itself exactly when, before the call,
\* the phrase mapping held no entry for that token sequence or held p for it.
C20_TextIsFirstInserted ==
  PhraseReturned =>
    /\ DigestByTokens
    /\ get_phrase(Cur.ret) =
         IF Cur.ret \in DOMAIN Cur.pre.phrase_store
         THEN Cur.pre.phrase_store[Cur.ret] ELSE ArgText(Cur)
    /\ (get_phrase(Cur.ret) = ArgText(Cur))
         <=> \/ Cur.ret \notin DOMAIN Cur.pre.phrase_store
             \/ Cur.pre.phrase_store[Cur.ret] = ArgText(Cur)

\* Two phrases that differ in whitespace only were inserted one after the
\* other: they got the same digest, and the lookup returns the first.
C20_Witness ==
  /\ PhraseReturned
  /\ Len(hist) = 2
  /\ hist[1].op = "add_phrase"
  /\ hist[1].ret = Cur.ret
  /\ ArgText(hist[1]) # ArgText(Cur)
  /\ findall_tokens(ArgText(Cur)) # <<>>
  /\ get_phrase(Cur.ret) = ArgText(hist[1])

(***************************************************************************)
(* Termination.  A call that has started goes on to its next statement:    *)
(* nothing in the code waits or blocks, so a pending write is made and a   *)
(* call with no write left returns.                                        *)
(***************************************************************************)
SpecLive == Spec /\ WF_vars(Write) /\ WF_vars(Return)

\* C19: every tokenizeAndEmbed call returns, and when it has returned every
\* sentence of its text has contributed at least one digest to the output,
\* which therefore is not empty (the empty text has one sentence).
C19_TerminatesWithDigests ==
  /\ [](TokenizeReturned =>
          /\ Cur.out # <<>>
          /\ Len(Cur.out) >= Len(Sentences(Cur))
          /\ \A k \in 1..Len(Sentences(Cur)) :
               Appended(AtSentence(Cur, k), AfterSentence(Cur, k)) # <<>>)
  /\ (pc = "run" /\ Cur.op = "tokenize_and_embed") ~> (pc = "idle")

\* tokenizeAndEmbed of the empty text has returned on a store that earlier
\* operations had filled, and so has a call on a text of two sentences.
C19_Witness ==
  /\ TokenizeReturned
  /\ Len(hist) = 2
  /\ hist[1].op = "tokenize_and_embed"
  /\ Len(Sentences(hist[1])) = 2
  /\ hist[1].out # <<>>
  /\ ArgText(Cur) = <<>>
  /\ Cur.pre.phrase_store # EmptyMap
  /\ Len(Cur.out) >= 1

(***************************************************************************)
(* Concurrent inserts.  Two threads call the same insert operation on the  *)
(* same text on the shared dictionary.  A call is the sequence of its      *)
(* insert-if-absent statements (lines 40-41, 49-50, 62-63), each a         *)
(* membership test followed, when the key is absent, by a mapping write;   *)
(* the threads interleave between any two of these steps.  While the two   *)
(* calls run pc is "fork" and pending[t] is the position of thread t.      *)
(***************************************************************************)
Threads == {1, 2}

\* the texts the concurrent calls are made on: those over Alphabet, "_a"
\* and "cat"
ForkTexts ==
  UNION {[1..n -> Alphabet] : n \in 0..MaxLen} \cup {<<95, 97>>, <<99, 97, 116>>}

\* if k not in self.<store>: self.<store>[k] = x, as a statement to execute
Statement(store, k, x) == [store |-> store, key |-> k, val |-> x]
NoStatements == [steps |-> <<>>, hashes |-> <<>>]

\* lines 38-42: the statement of add_char and the digest it returns
add_char_steps(char) ==
  [steps |-> <<Statement("char_store", get_hash(Str(char)).val, char)>>,
   ret |-> get_hash(Str(char)).val]

\* a child call has run: its statements and its digest are added
Called(acc, r) ==
  [steps |-> acc.steps \o r.steps, hashes |-> Append(acc.hashes, r.ret)]

\* [self.add_char(c) for c in word]
RECURSIVE add_chars_steps(_, _)
add_chars_steps(acc, word) ==
  IF word = <<>> THEN acc
  ELSE add_chars_steps(Called(acc, add_char_steps(<<Head(word)>>)), Tail(word))

\* lines 48-51 and 61-64: the statement for the unit itself, keyed by the
\* hash of the joined digests of its children
combined_steps(acc, store, unit) ==
  [steps |-> Append(acc.steps,
                    Statement(store, get_hash(Bytes(Concat(acc.hashes))).val,
                              unit)),
   ret |-> get_hash(Bytes(Concat(acc.hashes))).val]

\* lines 46-51
add_word_steps(word) ==
  combined_steps(add_chars_steps(NoStatements, word), "word_store", word)

\* self.add_word(token) if token.isalnum() else self.add_char(token)
add_token_steps(token) ==
  IF isalnum(token) THEN add_word_steps(token) ELSE add_char_steps(token)

RECURSIVE add_tokens_steps(_, _)
add_tokens_steps(acc, tokens) ==
  IF tokens = <<>> THEN acc
  ELSE add_tokens_steps(Called(acc, add_token_steps(Head(tokens))), Tail(tokens))

\* lines 55-64
add_phrase_steps(phrase) ==
  combined_steps(add_tokens_steps(NoStatements, findall_tokens(phrase)),
                 "phrase_store", phrase)

StepsOf(op, text) ==
  IF op = "add_char" THEN add_char_steps(text)
  ELSE IF op = "add_word" THEN add_word_steps(text)
  ELSE add_phrase_steps(text)

StoreNamed(store) ==
  IF store = "char_store" THEN char_store
  ELSE IF store = "word_store" THEN word_store ELSE phrase_store

\* the statement thread t is at, if any
AtStatement(t) == pending[t].steps[pending[t].i]

\* both threads enter op(text)
Fork(op, text) ==
  /\ pc = "idle"
  /\ Len(hist) < MaxCalls
  /\ pc' = "fork"
  /\ pending' = [t \in Threads |->
                   [steps |-> StepsOf(op, text).steps, i |-> 1, pos |-> "test",
                    ret |-> <<>>, late |-> FALSE]]
  /\ hist' = Append(hist, [op |-> op, arg |-> Str(text), vec |-> <<>>,
                           status |-> "ok", ret |-> StepsOf(op, text).ret,
                           out |-> <<>>, pre |-> Snapshot])
  /\ UNCHANGED stores

\* if k not in self.<store>: thread t goes on to the write, or past it
ThreadTest(t) ==
  /\ pc = "fork"
  /\ pending[t].pos = "test"
  /\ pending[t].i <= Len(pending[t].steps)
  /\ pending' =
       IF AtStatement(t).key \in DOMAIN StoreNamed(AtStatement(t).store)
       THEN [pending EXCEPT ![t].i = @ + 1]
       ELSE [pending EXCEPT ![t].pos = "write"]
  /\ UNCHANGED <<stores, pc, hist>>

\* ThreadWrite whose write of a key that is present removes the key
ThreadWrite_toggle(t) ==
  /\ pc = "fork"
  /\ pending[t].pos = "write"
  /\ LET e == AtStatement(t)
         toggled(m) == IF e.key \in DOMAIN m
                       THEN [d \in DOMAIN m \ {e.key} |-> m[d]]
                       ELSE (e.key :> e.val) @@ m
     IN
     /\ char_store' = IF e.store = "char_store"
                      THEN toggled(char_store) ELSE char_store
     /\ word_store' = IF e.store = "word_store"
                      THEN toggled(word_store) ELSE word_store
     /\ phrase_store' = IF e.store = "phrase_store"
                        THEN toggled(phrase_store) ELSE phrase_store
     /\ pending' = [pending EXCEPT
                      ![t].i = @ + 1, ![t].pos = "test",
                      ![t].late = @ \/ e.key \in DOMAIN StoreNamed(e.store)]
  /\ UNCHANGED <<embedding_store, pc, hist>>

\* self.<store>[k] = x by thread t, whatever the mapping holds for k by now;
\* late records that the other thread wrote k between the test and this write
ThreadWrite(t) ==
  /\ pc = "fork"
  /\ pending[t].pos = "write"
  /\ LET e == AtStatement(t) IN
     /\ char_store' = IF e.store = "char_store"
                      THEN (e.key :> e.val) @@ char_store ELSE char_store
     /\ word_store' = IF e.store = "word_store"
                      THEN (e.key :> e.val) @@ word_store ELSE word_store
     /\ phrase_store' = IF e.store = "phrase_store"
                        THEN (e.key :> e.val) @@ phrase_store ELSE phrase_store
     /\ pending' = [pending EXCEPT
                      ![t].i = @ + 1, ![t].pos = "test",
                      ![t].late = @ \/ e.key \in DOMAIN StoreNamed(e.store)]
  /\ UNCHANGED <<embedding_store, pc, hist>>

\* return combined_hash: the key of the call's last statement
ThreadReturn(t) ==
  /\ pc = "fork"
  /\ pending[t].pos = "test"
  /\ pending[t].i > Len(pending[t].steps)
  /\ pending' = [pending EXCEPT
                   ![t].pos = "done",
                   ![t].ret = pending[t].steps[Len(pending[t].steps)].key]
  /\ UNCHANGED <<stores, pc, hist>>

\* both calls have returned
Join ==
  /\ pc = "fork"
  /\ \A t \in Threads : pending[t].pos = "done"
  /\ pc' = "idle"
  /\ pending' = <<>>
  /\ UNCHANGED <<stores, hist>>

NextConc ==
  \/ Next
  \/ \E op \in InsertOps, text \in ForkTexts : Fork(op, text)
  \/ \E t \in Threads : ThreadTest(t)
  \/ \E t \in Threads : ThreadWrite(t)
  \/ \E t \in Threads : ThreadReturn(t)
  \/ Join

SpecConc == Init /\ [][NextConc]_vars

\* the call recorded as h, run alone on the dictionary it found
Alone(h) ==
  IF h.op = "add_char" THEN add_char(CallStart(h), h.arg)
  ELSE IF h.op = "add_word" THEN add_word(CallStart(h), h.arg)
  ELSE add_phrase(CallStart(h), h.arg)

BothDone == pc = "fork" /\ \A t \in Threads : pending[t].pos = "done"

\* C11: when two calls of the same insert operation on the same text have
\* run interleaved, both have returned the same digest, the digest the call
\* returns when run alone, and the four mappings are as one such call run
\* alone leaves them.
C11_ConcurrentAsSingle ==
  BothDone =>
    /\ pending[1].ret = pending[2].ret
    /\ pending[1].ret = Alone(Cur).ret
    /\ char_store = Alone(Cur).s.char_store
    /\ word_store = Alone(Cur).s.word_store
    /\ phrase_store = Alone(Cur).s.phrase_store
    /\ embedding_store = Cur.pre.embedding_store

\* Two insertPhrase calls on a phrase of two or more tokens have both
\* returned, each having written a key that the other wrote between its test
\* and its write.
C11_Witness ==
  /\ BothDone
  /\ Cur.op = "add_phrase"
  /\ Len(findall_tokens(ArgText(Cur))) >= 2
  /\ \A t \in Threads : pending[t].late
  /\ phrase_store # Cur.pre.phrase_store

====
